---- MODULE Spec2Model ----
(***************************************************************************)
(* easy-dag: NewDAG (dagBuilder: interning and cycle detection), one run of *)
(* a frozen DAG (DAG.RunWithPool, with no pool or with a Pool), the         *)
(* per-node state machine of runtime_node.go, the timeout interlock         *)
(* (DoIfRunning against the deadline handler), the retry loop, and Pool.    *)
(*                                                                         *)
(* Threads of one node n:                                                  *)
(*   dpc[n]  the driver, the thunk start() dispatches to execute run();    *)
(*   rpc[n]  the thread executing processWithRetry: the driver itself      *)
(*           when the node has no timeout, the inner task dispatched by    *)
(*           processWithTimeout otherwise.                                 *)
(* A dispatched thunk is "queued" while it waits in the pool's queue.      *)
(* Time is abstract: a deadline may pass at any moment after it was set.   *)
(***************************************************************************)
EXTENDS Integers, FiniteSets, Sequences, TLC

\* ------------------------------------------------------------- bounds
NumNodes == 3
MaxAttemptsCfg == 2
MaxUserCalls == 1
MaxArgs == 2
MaxWorkers == 2

Nodes == 1..NumNodes

\* ------------------------------------------------------ program constants
Waiting == 0
Running == 1
Succeeded == 2
Failed == 3

NoErr == [kind |-> "nil", at |-> 0]
TimeoutErr == [kind |-> "timeout", at |-> 0]
\* the error value of the k-th invocation of a processor: a returned error,
\* or the error process() synthesizes when the processor panics
ProcErr(k) == [kind |-> "proc", at |-> k]
PanicErr(k) == [kind |-> "panic", at |-> k]

maxUint(a, b) == IF a > b THEN a ELSE b

\* Durations, abstractly: zero; the time elapsed since an instant of this run; and
\* the time elapsed since the zero time.Time, which time.Since saturates to the
\* largest Duration.
ZeroCost == "zero"
SinceBegin == "since begin"
SinceZeroTime == "since the zero Time"

\* the elements of S in ascending order
RECURSIVE Ascending(_)
Ascending(S) ==
    IF S = {} THEN <<>>
    ELSE LET x == CHOOSE y \in S : \A z \in S : y <= z IN <<x>> \o Ascending(S \ {x})

VARIABLES
    meta,        \* nodeMetadata of every node (frozen input of the run)
    status,      \* runtimeNode.status
    doneDepCnt,  \* runtimeNode.doneDepCnt
    err,         \* runtimeNode.err
    attempts,    \* runtimeNode.attempts
    done,        \* runtimeNode.done is closed
    started,     \* processWithTimeout's started channel is closed
    begin,       \* runtimeNode.begin has been set
    muR,         \* runtimeNode.mu: number of read locks held
    muW,         \* runtimeNode.mu: "free", "pending" (Lock waits for readers), "held"
    wg,          \* dagCtx.wg
    mpc,         \* the caller of RunWithPool
    dpc,         \* the driver of each node
    rpc,         \* the processWithRetry thread of each node
    lerr,        \* processWithRetry's local err
    calls,       \* DoIfRunning calls the current processor invocation has made
    ok,          \* what the processor's last DoIfRunning call returned
    params,      \* per node, the number of completed writes of its fn to the shared params
    invoked,     \* per node, the number of processor invocations begun
    failures,    \* per node, the number of processor invocations that returned an error
    timedOut,    \* the deadline handler has flipped the node to Failed
    results,     \* the result vector RunWithPool returns
    maxWorkers,  \* dagCtx.pool: Pool.maxWorkers, or 0 when ctx.pool is nil
    workers,     \* Pool.workers
    queue,       \* Pool: the f of the task cells from Pool.head to Pool.tail
    len,         \* Pool.len
    exiting,     \* Pool.work: the workers whose thunk has returned and that are about to
                 \* lock the pool
    userNodes,   \* the caller's Node values: their Dependencies and WeakDependencies
    nodes,       \* dagBuilder.nodes, the arguments of NewDAG
    built        \* what NewDAG returned

\* the state of a run, of the pool and of the builder
runVars == <<meta, status, doneDepCnt, err, attempts, done, started, begin, muR, muW,
             wg, mpc, dpc, rpc, lerr, calls, ok, params, invoked, failures, timedOut, results>>
poolVars == <<maxWorkers, workers, queue, len, exiting>>
builderVars == <<userNodes, nodes, built>>
vars == <<runVars, poolVars, builderVars>>


\* ------------------------------------------------- the frozen graph (input)
\* nodeMetadata.depCnt as dagBuilder.add counts it: one per strong and per weak dependency
depCnt(n) == Cardinality(meta[n].deps) + Cardinality(meta[n].weakDeps)
\* nodeMetadata.children / weakChildren: the nodes that list n as a (weak) dependency
children(n) == {c \in Nodes : n \in meta[c].deps}
weakChildren(n) == {c \in Nodes : n \in meta[c].weakDeps}
\* DAG.rootNodes
rootNodes == {n \in Nodes : depCnt(n) = 0}
\* faulty variant: node.maxAttempts is used as it is, 0 is not raised to 1
maxAttemptsRaw(n) == meta[n].maxAttempts
\* processWithRetry: maxAttempts := maxUint(1, node.maxAttempts)
maxAttempts(n) == maxUint(1, meta[n].maxAttempts)
\* run(): neither timeout is set
noTimeout(n) == meta[n].localTimeout <= 0 /\ meta[n].totalTimeout <= 0

\* The settings of one node. Durations are abstract: 0 is "not set", 1 is "set".
\* guards is the number of DoIfRunning calls one invocation of the processor makes
\* at most (the processor is the caller's code: its behaviour is an input).
NoProcessor ==
    [processor |-> FALSE, guards |-> 0, localTimeout |-> 0, totalTimeout |-> 0,
     maxAttempts |-> 0, backoffFunc |-> FALSE, onSuccess |-> FALSE,
     onFailure |-> FALSE]
PlainProcessor ==
    [processor |-> TRUE, guards |-> 0, localTimeout |-> 0, totalTimeout |-> 0,
     maxAttempts |-> 0, backoffFunc |-> FALSE, onSuccess |-> FALSE,
     onFailure |-> FALSE]
TimedProcessor ==
    [processor |-> TRUE, guards |-> 0, localTimeout |-> 1, totalTimeout |-> 0,
     maxAttempts |-> 1, backoffFunc |-> FALSE, onSuccess |-> FALSE,
     onFailure |-> FALSE]
\* every node is plain, but node t, which is timed
SimpleSettings(t) == [n \in Nodes |-> IF n = t THEN TimedProcessor ELSE PlainProcessor]
\* a node with a total timeout, with or without a processor
TotalTimedProcessor(p) ==
    [processor |-> p, guards |-> 0, localTimeout |-> 0, totalTimeout |-> 1,
     maxAttempts |-> 1, backoffFunc |-> FALSE, onSuccess |-> FALSE,
     onFailure |-> FALSE]
\* every node is plain, but node t, which has a total timeout
TotalSettings(t, p) ==
    [n \in Nodes |-> IF n = t THEN TotalTimedProcessor(p) ELSE PlainProcessor]
FullSettings ==
    [processor : {TRUE}, guards : 0..MaxUserCalls, localTimeout : {0, 1},
     totalTimeout : {0, 1}, maxAttempts : 0..MaxAttemptsCfg, backoffFunc : BOOLEAN,
     onSuccess : {FALSE}, onFailure : {FALSE}]
\* the settings of a node with a timeout and any hooks; a hook, when set, calls GetCost
\* or DoIfRunning on the node it is given
HookSettings ==
    [processor : {TRUE}, guards : {0}, localTimeout : {0, 1}, totalTimeout : {0, 1},
     maxAttempts : 0..MaxAttemptsCfg, backoffFunc : {FALSE}, onSuccess : BOOLEAN,
     onFailure : BOOLEAN]

\* Acyclic dependency graphs: a node depends only on nodes interned before it,
\* strongly or weakly.
Edges == {e \in Nodes \X Nodes : e[1] < e[2]}
Graphs ==
    {[n \in Nodes |-> [deps |-> {m \in Nodes : m < n /\ k[<<m, n>>] = "strong"},
                       weakDeps |-> {m \in Nodes : m < n /\ k[<<m, n>>] = "weak"}]] :
        k \in [Edges -> {"none", "strong", "weak"}]}
\* The chain 1 <- 2 <- ... of strong dependencies
Chain == [n \in Nodes |-> [deps |-> {n - 1} \cap Nodes, weakDeps |-> {}]]

\* newNodeMetadata and dagBuilder.add: the metadata of the nodes with settings s and
\* dependencies g
Meta(s, g) ==
    [n \in Nodes |->
        [processor |-> s[n].processor, guards |-> s[n].guards,
         localTimeout |-> s[n].localTimeout, totalTimeout |-> s[n].totalTimeout,
         maxAttempts |-> s[n].maxAttempts, backoffFunc |-> s[n].backoffFunc,
         onSuccess |-> s[n].onSuccess, onFailure |-> s[n].onFailure,
         deps |-> g[n].deps, weakDeps |-> g[n].weakDeps]]

\* The runs checked: every graph over plain nodes of which one may be timed, and
\* the chain whose first node has any settings.
GraphInputs == {Meta(SimpleSettings(t), g) : t \in 0..NumNodes, g \in Graphs}
NodeInputs ==
    {Meta([n \in Nodes |-> IF n = 1 THEN f ELSE NoProcessor], Chain) : f \in FullSettings}
\* the chain whose first node has any settings and hooks
HookInputs ==
    {Meta([n \in Nodes |-> IF n = 1 THEN f ELSE NoProcessor], Chain) :
        f \in FullSettings \cup HookSettings}
\* every graph over plain nodes of which one has a total timeout
TotalInputs == {Meta(TotalSettings(t, p), g) : t \in Nodes, p \in BOOLEAN, g \in Graphs}

\* ------------------------------------------------------------------ Init
\* newRuntimeNode for every node, newDagCtx: the state RunWithPool has built
\* before it starts the roots, for the graphs of I.
InitRun(I) ==
    /\ meta \in I
    /\ status = [n \in Nodes |-> Waiting]
    /\ doneDepCnt = [n \in Nodes |-> 0]
    /\ err = [n \in Nodes |-> NoErr]
    /\ attempts = [n \in Nodes |-> 0]
    /\ done = [n \in Nodes |-> FALSE]
    /\ started = [n \in Nodes |-> FALSE]
    /\ begin = [n \in Nodes |-> FALSE]
    /\ muR = [n \in Nodes |-> 0]
    /\ muW = [n \in Nodes |-> "free"]
    /\ wg = 0
    /\ mpc = "start"
    /\ dpc = [n \in Nodes |-> "idle"]
    /\ rpc = [n \in Nodes |-> "idle"]
    /\ lerr = [n \in Nodes |-> NoErr]
    /\ calls = [n \in Nodes |-> 0]
    /\ ok = [n \in Nodes |-> "none"]
    /\ params = [n \in Nodes |-> 0]
    /\ invoked = [n \in Nodes |-> 0]
    /\ failures = [n \in Nodes |-> 0]
    /\ timedOut = [n \in Nodes |-> FALSE]
    /\ results = [n \in Nodes |-> [Status |-> Waiting, Err |-> NoErr, Cost |-> ZeroCost,
                                    Attempts |-> 0]]

\* the f of Pool's first task cell, which NewPool creates: nil
NilThunk == <<"nil", 0>>
\* NewPool(w) for some w of W; W = {0} stands for no pool (ctx.pool is nil)
NewPool(W) ==
    /\ maxWorkers \in W
    /\ workers = 0
    /\ queue = <<NilThunk>>
    /\ len = 0
    /\ exiting = 0

\* NewDAG has not been called
NotBuilt == [called |-> FALSE, dag |-> FALSE, err |-> <<>>, metaNodes |-> <<>>,
             rootNodes |-> <<>>]
\* the builder is not part of the run: the run starts from the frozen graph
NoBuilder ==
    /\ userNodes = [u \in Nodes |-> [Dependencies |-> <<>>, WeakDependencies |-> <<>>]]
    /\ nodes = <<>>
    /\ built = NotBuilt

\* a run without a pool of one of the graphs of I
InitOf(I) == InitRun(I) /\ NewPool({0}) /\ NoBuilder


\* ------------------------------------------------------------ the interlock
\* sync.RWMutex: RLock is granted unless a writer holds or waits for the lock
CanRLock(n) == muW[n] = "free"
\* faulty variant: Lock does not wait for the readers
CanLockAtOnce(n) == muR[n] >= 0
\* sync.RWMutex: a waiting Lock is granted once no reader holds the lock
CanLock(n) == muR[n] = 0
\* faulty variant: DoIfRunning tests status != Waiting
IsNotWaiting(n) == status[n] # Waiting
\* DoIfRunning: node.status.Load() == Running
IsRunning(n) == status[n] = Running

\* ------------------------------------------------------- status transitions
\* faulty variant: success() stores Succeeded without comparing
successStore(n) == [status EXCEPT ![n] = Succeeded]
\* success(): status.CompareAndSwap(Running, Succeeded)
success(n) == IF status[n] = Running THEN [status EXCEPT ![n] = Succeeded] ELSE status
\* fail(): status.CompareAndSwap(Running, Failed) succeeds
failWins(n) == status[n] = Running
\* fail(): the status after the compare-and-swap
fail(n) == IF failWins(n) THEN [status EXCEPT ![n] = Failed] ELSE status

\* ------------------------------------------------------------------ the pool
\* start(), processWithTimeout: node.ctx.pool != nil
hasPool == maxWorkers > 0
\* faulty variant: a worker is added while workers <= maxWorkers
hasFreeWorkerOffByOne(w) == w <= maxWorkers
\* Pool.Submit: p.workers < p.maxWorkers
hasFreeWorker(w) == w < maxWorkers
\* the pool as Submit sees it; ran collects the thunks handed to a new worker
poolState == [workers |-> workers, queue |-> queue, len |-> len, ran |-> {}]
\* Pool.Submit(f), f not nil: a new worker runs f, or f is appended behind Pool.tail.
\* Without a pool: go f().
Submit(ps, f) ==
    IF ~hasPool THEN [ps EXCEPT !.ran = @ \cup {f}]
    ELSE IF hasFreeWorker(ps.workers)
      THEN [ps EXCEPT !.workers = @ + 1, !.ran = @ \cup {f}]
      ELSE [ps EXCEPT !.queue = Append(@, f), !.len = @ + 1]
\* the Submit calls of one thread, one after the other
RECURSIVE SubmitAll(_, _)
SubmitAll(ps, fs) == IF fs = <<>> THEN ps ELSE SubmitAll(Submit(ps, Head(fs)), Tail(fs))
\* the thunk start() dispatches for node n, and the one processWithTimeout dispatches
runThunk(n) == <<"run", n>>
processThunk(n) == <<"process", n>>
\* the orders in which the nodes of S can follow one another in a children slice
Orders(S) == {o \in [1..Cardinality(S) -> S] : \A i, j \in DOMAIN o : i # j => o[i] # o[j]}
\* start() of the nodes of o in turn: the pool after their dispatch
dispatch(o) == SubmitAll(poolState, [i \in DOMAIN o |-> runThunk(o[i])])
\* faulty variant: the inner task always gets a goroutine of its own
goInner(n) == [poolState EXCEPT !.ran = {processThunk(n)}]
\* processWithTimeout: go process() without a pool, node.ctx.pool.Submit(process) with one
submitInner(n) == Submit(poolState, processThunk(n))
\* Pool.work: f() has returned, on a worker of the pool
thunkReturns == IF hasPool THEN exiting + 1 ELSE exiting

\* success(): the compare-and-swap succeeded and node.onSuccess != nil
callsOnSuccess(n) == status[n] = Running /\ meta[n].onSuccess
\* fail(): the compare-and-swap succeeded and node.onFailure != nil
callsOnFailure(n) == failWins(n) /\ meta[n].onFailure

\* ----------------------------------------------------------------- start
\* faulty variant: every dependency arrival calls start
onDepDoneFiresAlways(c, old, new) == old < new
\* onDepDone: the Add(1) calls that take doneDepCnt from old to new include the one
\* that returns depCnt
onDepDoneFires(c, old, new) == old < depCnt(c) /\ depCnt(c) <= new
\* start(): the nodes of S whose Waiting -> Running compare-and-swap succeeds
startable(S) == {c \in S : status[c] = Waiting}

\* RunWithPool: start every root, then wait
StartRoots ==
    /\ mpc = "start"
    /\ LET S == startable(rootNodes)
           ps == dispatch(Ascending(S))
       IN
         /\ status' = [n \in Nodes |-> IF n \in S THEN Running ELSE status[n]]
         /\ dpc' = [n \in Nodes |-> IF n \notin S THEN dpc[n]
                                     ELSE IF runThunk(n) \in ps.ran THEN "run"
                                     ELSE "queued"]
         /\ wg' = wg + Cardinality(S)
         /\ workers' = ps.workers /\ queue' = ps.queue /\ len' = ps.len
    /\ mpc' = "wait"
    /\ UNCHANGED <<builderVars, maxWorkers, exiting, meta, doneDepCnt, err, attempts, done, started, begin, muR, muW,
                   rpc, lerr, calls, ok, params, invoked, failures, timedOut, results>>

\* runtimeNode.cost: zero until the deferred function of processWithRetry stores
\* time.Since(node.begin), in the step that closes done
cost(n) == IF done[n] THEN SinceBegin ELSE ZeroCost
\* time.Since(node.begin); node.begin is the zero time.Time until it is assigned
sinceNodeBegin(n) == IF begin[n] THEN SinceBegin ELSE SinceZeroTime
\* GetCost: cost.Load() once done is closed, time.Since(node.begin) before (the read
\* lock is free when RunWithPool collects the results)
GetCost(n) == IF done[n] THEN cost(n) ELSE sinceNodeBegin(n)
\* getResult
getResult(n) ==
    [Status |-> status[n], Err |-> err[n], Cost |-> GetCost(n), Attempts |-> attempts[n]]

\* RunWithPool: ctx.wg.Wait() returns, the results are collected
Return ==
    /\ mpc = "wait"
    /\ wg = 0
    /\ results' = [n \in Nodes |-> getResult(n)]
    /\ mpc' = "returned"
    /\ UNCHANGED <<builderVars, poolVars, meta, status, doneDepCnt, err, attempts, done, started, begin, muR,
                   muW, wg, dpc, rpc, lerr, calls, ok, params, invoked, failures, timedOut>>

\* --------------------------------------------------------------- the driver
\* run(): the total timeout has expired before the node starts
RunExpired(n) ==
    /\ dpc[n] = "run"
    /\ meta[n].totalTimeout > 0
    /\ status' = fail(n)
    /\ err' = IF failWins(n) THEN [err EXCEPT ![n] = TimeoutErr] ELSE err
    /\ dpc' = [dpc EXCEPT ![n] = IF callsOnFailure(n) THEN "hookRun" ELSE "notify"]
    /\ UNCHANGED <<builderVars, poolVars, meta, doneDepCnt, attempts, done, started, begin, muR, muW, wg, mpc,
                   rpc, lerr, calls, ok, params, invoked, failures, timedOut, results>>

\* run(): no processor, the node succeeds at once
RunNoProcessor(n) ==
    /\ dpc[n] = "run"
    /\ ~meta[n].processor
    /\ status' = success(n)
    /\ dpc' = [dpc EXCEPT ![n] = IF callsOnSuccess(n) THEN "hookRun" ELSE "notify"]
    /\ UNCHANGED <<builderVars, poolVars, meta, doneDepCnt, err, attempts, done, started, begin, muR, muW, wg,
                   mpc, rpc, lerr, calls, ok, params, invoked, failures, timedOut, results>>

\* run() -> processWithoutTimeout: the driver itself executes processWithRetry
RunWithoutTimeout(n) ==
    /\ dpc[n] = "run"
    /\ meta[n].processor
    /\ noTimeout(n)
    /\ begin' = [begin EXCEPT ![n] = TRUE]
    /\ dpc' = [dpc EXCEPT ![n] = "retry"]
    /\ rpc' = [rpc EXCEPT ![n] = "loop"]
    /\ UNCHANGED <<builderVars, poolVars, meta, status, doneDepCnt, err, attempts, done, started, muR, muW, wg,
                   mpc, lerr, calls, ok, params, invoked, failures, timedOut, results>>

\* run() -> processWithTimeout: spawn the inner goroutine, wait for started
RunWithTimeout(n) ==
    /\ dpc[n] = "run"
    /\ meta[n].processor
    /\ ~noTimeout(n)
    /\ dpc' = [dpc EXCEPT ![n] = "waitStarted"]
    /\ LET ps == submitInner(n) IN
         /\ rpc' = [rpc EXCEPT ![n] = IF processThunk(n) \in ps.ran THEN "begin"
                                       ELSE "queued"]
         /\ workers' = ps.workers /\ queue' = ps.queue /\ len' = ps.len
    /\ UNCHANGED <<builderVars, maxWorkers, exiting, meta, status, doneDepCnt, err, attempts, done, started, begin, muR,
                   muW, wg, mpc, lerr, calls, ok, params, invoked, failures, timedOut, results>>

\* processWithTimeout: <-started
WaitStarted(n) ==
    /\ dpc[n] = "waitStarted"
    /\ started[n]
    /\ dpc' = [dpc EXCEPT ![n] = "select"]
    /\ UNCHANGED <<builderVars, poolVars, meta, status, doneDepCnt, err, attempts, done, started, begin, muR,
                   muW, wg, mpc, rpc, lerr, calls, ok, params, invoked, failures, timedOut, results>>

\* processWithTimeout: select takes case <-node.done
SelectDone(n) ==
    /\ dpc[n] = "select"
    /\ done[n]
    /\ dpc' = [dpc EXCEPT ![n] = "notify"]
    /\ UNCHANGED <<builderVars, poolVars, meta, status, doneDepCnt, err, attempts, done, started, begin, muR,
                   muW, wg, mpc, rpc, lerr, calls, ok, params, invoked, failures, timedOut, results>>

\* processWithTimeout: select takes case <-time.After(...), node.mu.Lock() is called
SelectTimeout(n) ==
    /\ dpc[n] = "select"
    /\ muW' = [muW EXCEPT ![n] = "pending"]
    /\ dpc' = [dpc EXCEPT ![n] = "lock"]
    /\ UNCHANGED <<builderVars, poolVars, meta, status, doneDepCnt, err, attempts, done, started, begin, muR,
                   wg, mpc, rpc, lerr, calls, ok, params, invoked, failures, timedOut, results>>

\* processWithTimeout: node.mu.Lock() returns
DeadlineLock(n) ==
    /\ dpc[n] = "lock"
    /\ CanLock(n)
    /\ muW' = [muW EXCEPT ![n] = "held"]
    /\ dpc' = [dpc EXCEPT ![n] = "flip"]
    /\ UNCHANGED <<builderVars, poolVars, meta, status, doneDepCnt, err, attempts, done, started, begin, muR,
                   wg, mpc, rpc, lerr, calls, ok, params, invoked, failures, timedOut, results>>

\* processWithTimeout: node.fail(params, TimeoutErr) under the write lock
DeadlineFail(n) ==
    /\ dpc[n] = "flip"
    /\ status' = fail(n)
    /\ err' = IF failWins(n) THEN [err EXCEPT ![n] = TimeoutErr] ELSE err
    /\ timedOut' = IF failWins(n) THEN [timedOut EXCEPT ![n] = TRUE] ELSE timedOut
    /\ dpc' = [dpc EXCEPT ![n] = IF callsOnFailure(n) THEN "hookFlip" ELSE "unlock"]
    /\ UNCHANGED <<builderVars, poolVars, meta, doneDepCnt, attempts, done, started, begin, muR, muW, wg, mpc,
                   rpc, lerr, calls, ok, params, invoked, failures, results>>

\* processWithTimeout: node.mu.Unlock()
DeadlineUnlock(n) ==
    /\ dpc[n] = "unlock"
    /\ muW' = [muW EXCEPT ![n] = "free"]
    /\ dpc' = [dpc EXCEPT ![n] = "notify"]
    /\ UNCHANGED <<builderVars, poolVars, meta, status, doneDepCnt, err, attempts, done, started, begin, muR,
                   wg, mpc, rpc, lerr, calls, ok, params, invoked, failures, timedOut, results>>

\* faulty variant: the strong children are notified whenever the node has completed
notifiesStrongOnCompletion(n) == status[n] \in {Succeeded, Failed}
\* run(): the strong children are notified
notifiesStrong(n) == status[n] = Succeeded
\* faulty variant: the weak children are notified only by a node that succeeded
arrivalsOnSuccess(n, c) ==
    IF notifiesStrong(n) /\ (c \in children(n) \/ c \in weakChildren(n)) THEN 1 ELSE 0
\* run(): the onDepDone calls child c receives from node n
arrivals(n, c) ==
    (IF notifiesStrong(n) /\ c \in children(n) THEN 1 ELSE 0)
    + (IF c \in weakChildren(n) THEN 1 ELSE 0)

\* faulty variant: run() does not release the wait group
wgDoneForgotten(w) == w
\* run(): defer node.ctx.wg.Done()
wgDone(w) == w - 1

\* run(): processing has returned
atNotify(n) == dpc[n] = "notify" \/ (dpc[n] = "retry" /\ rpc[n] = "ret")

\* run(): load the status, notify the children, wg.Done()
Notify(n) ==
    /\ atNotify(n)
    /\ LET new == [c \in Nodes |-> doneDepCnt[c] + arrivals(n, c)]
           S == startable({c \in Nodes : onDepDoneFires(c, doneDepCnt[c], new[c])})
       IN /\ doneDepCnt' = new
          /\ status' = [c \in Nodes |-> IF c \in S THEN Running ELSE status[c]]
          /\ \E o \in Orders(S) :
                LET ps == dispatch(o) IN
                  /\ dpc' = [c \in Nodes |-> IF c = n THEN "done"
                                             ELSE IF c \notin S THEN dpc[c]
                                             ELSE IF runThunk(c) \in ps.ran THEN "run"
                                             ELSE "queued"]
                  /\ workers' = ps.workers /\ queue' = ps.queue /\ len' = ps.len
          /\ wg' = wgDone(wg + Cardinality(S))
    /\ exiting' = thunkReturns
    /\ UNCHANGED <<builderVars, maxWorkers, meta, err, attempts, done, started, begin, muR, muW, mpc, rpc, lerr,
                   calls, ok, params, invoked, failures, timedOut, results>>

\* ------------------------------------------- processWithRetry and the processor
\* processWithTimeout's process closure: set begin and ddl, close(started)
InnerBegin(n) ==
    /\ rpc[n] = "begin"
    /\ begin' = [begin EXCEPT ![n] = TRUE]
    /\ started' = [started EXCEPT ![n] = TRUE]
    /\ rpc' = [rpc EXCEPT ![n] = "loop"]
    /\ UNCHANGED <<builderVars, poolVars, meta, status, doneDepCnt, err, attempts, done, muR, muW, wg, mpc,
                   dpc, lerr, calls, ok, params, invoked, failures, timedOut, results>>

\* faulty variant: the loop test admits one attempt more
loopTestOffByOne(n) == attempts[n] <= maxAttempts(n)
\* processWithRetry: for node.attempts < maxAttempts
loopTest(n) == attempts[n] < maxAttempts(n)

\* processWithRetry: the loop test fails, the function returns
RetryExhausted(n) ==
    /\ rpc[n] = "loop"
    /\ ~loopTest(n)
    /\ rpc' = [rpc EXCEPT ![n] = "exit"]
    /\ UNCHANGED <<builderVars, poolVars, meta, status, doneDepCnt, err, attempts, done, started, begin, muR,
                   muW, wg, mpc, dpc, lerr, calls, ok, params, invoked, failures, timedOut, results>>

\* faulty variant: node.attempts++ is not guarded by DoIfRunning
RetryAttemptUnguarded(n) ==
    /\ rpc[n] = "loop"
    /\ loopTest(n)
    /\ attempts' = [attempts EXCEPT ![n] = @ + 1]
    /\ rpc' = [rpc EXCEPT ![n] = "call"]
    /\ UNCHANGED <<builderVars, poolVars, meta, status, doneDepCnt, err, done, started, begin, muR, muW, wg,
                   mpc, dpc, lerr, calls, ok, params, invoked, failures, timedOut,
                   results>>

\* processWithRetry: ok := node.DoIfRunning(func() { node.attempts++ }); the read lock
\* is taken and released within the step. Not ok: return.
RetryAttempt(n) ==
    /\ rpc[n] = "loop"
    /\ loopTest(n)
    /\ CanRLock(n)
    /\ IF IsRunning(n)
         THEN /\ attempts' = [attempts EXCEPT ![n] = @ + 1]
              /\ rpc' = [rpc EXCEPT ![n] = "call"]
         ELSE /\ attempts' = attempts
              /\ rpc' = [rpc EXCEPT ![n] = "exit"]
    /\ UNCHANGED <<builderVars, poolVars, meta, status, doneDepCnt, err, done, started, begin, muR, muW, wg,
                   mpc, dpc, lerr, calls, ok, params, invoked, failures, timedOut, results>>

\* process(): node.processor(node, params) is invoked
ProcInvoke(n) ==
    /\ rpc[n] = "call"
    /\ invoked' = [invoked EXCEPT ![n] = @ + 1]
    /\ rpc' = [rpc EXCEPT ![n] = "proc"]
    /\ UNCHANGED <<builderVars, poolVars, meta, status, doneDepCnt, err, attempts, done, started, begin, muR,
                   muW, wg, mpc, dpc, lerr, calls, ok, params, failures, timedOut,
                   results>>

\* the processor calls node.DoIfRunning(fn): RLock, the status check; fn is entered
\* with the read lock held, or false is returned
UserDoIfRunning(n) ==
    /\ rpc[n] = "proc"
    /\ calls[n] < meta[n].guards
    /\ CanRLock(n)
    /\ IF IsRunning(n)
         THEN /\ muR' = [muR EXCEPT ![n] = @ + 1]
              /\ rpc' = [rpc EXCEPT ![n] = "fn"]
              /\ UNCHANGED <<calls, ok>>
         ELSE /\ ok' = [ok EXCEPT ![n] = "false"]
              /\ calls' = [calls EXCEPT ![n] = @ + 1]
              /\ UNCHANGED <<muR, rpc>>
    /\ UNCHANGED <<builderVars, poolVars, meta, status, doneDepCnt, err, attempts, done, started, begin, muW,
                   wg, mpc, dpc, lerr, params, invoked, failures, timedOut, results>>

\* DoIfRunning: fn() writes the shared params and returns; RUnlock; return true
UserFn(n) ==
    /\ rpc[n] = "fn"
    /\ params' = [params EXCEPT ![n] = @ + 1]
    /\ muR' = [muR EXCEPT ![n] = @ - 1]
    /\ ok' = [ok EXCEPT ![n] = "true"]
    /\ calls' = [calls EXCEPT ![n] = @ + 1]
    /\ rpc' = [rpc EXCEPT ![n] = "proc"]
    /\ UNCHANGED <<builderVars, poolVars, meta, status, doneDepCnt, err, attempts, done, started, begin, muW,
                   wg, mpc, dpc, lerr, invoked, failures, timedOut, results>>

\* what one processor invocation does in the end
Outcomes == {"nil", "error", "panic"}

\* process(): the error of the invocation; a panic is recovered into an error
process(n, o) ==
    CASE o = "nil" -> NoErr
      [] o = "error" -> ProcErr(attempts[n])
      [] o = "panic" -> PanicErr(attempts[n])

\* processWithRetry: a backoff follows the failed attempt
backsOff(n) == attempts[n] # maxAttempts(n) /\ meta[n].backoffFunc

\* processWithRetry: err = node.process(params) returns
ProcReturn(n) ==
    /\ rpc[n] = "proc"
    /\ \E o \in Outcomes :
         LET e == process(n, o) IN
           /\ lerr' = [lerr EXCEPT ![n] = e]
           /\ failures' = [failures EXCEPT ![n] = IF e = NoErr THEN @ ELSE @ + 1]
           /\ rpc' = [rpc EXCEPT ![n] = IF e = NoErr THEN "exit"
                                         ELSE IF backsOff(n) THEN "chk" ELSE "loop"]
    /\ calls' = [calls EXCEPT ![n] = 0]
    /\ ok' = [ok EXCEPT ![n] = "none"]
    /\ UNCHANGED <<builderVars, poolVars, meta, status, doneDepCnt, err, attempts, done, started, begin, muR,
                   muW, wg, mpc, dpc, params, invoked, timedOut, results>>

\* processWithRetry: node.status.Load() != Running before the backoff
leftRunning(n) == status[n] # Running

\* processWithRetry: if node.status.Load() != Running { return }, else the backoff is due
BackoffCheck(n) ==
    /\ rpc[n] = "chk"
    /\ rpc' = [rpc EXCEPT ![n] = IF leftRunning(n) THEN "exit" ELSE "sleep"]
    /\ UNCHANGED <<builderVars, poolVars, meta, status, doneDepCnt, err, attempts, done, started, begin, muR,
                   muW, wg, mpc, dpc, lerr, calls, ok, params, invoked, failures, timedOut, results>>

\* processWithRetry: time.Sleep(node.backoffFunc(node.attempts)) begins and returns
Backoff(n) ==
    /\ rpc[n] = "sleep"
    /\ rpc' = [rpc EXCEPT ![n] = "loop"]
    /\ UNCHANGED <<builderVars, poolVars, meta, status, doneDepCnt, err, attempts, done, started, begin, muR,
                   muW, wg, mpc, dpc, lerr, calls, ok, params, invoked, failures, timedOut, results>>

\* processWithRetry's deferred function: cost.Store, close(node.done)
RetryExit(n) ==
    /\ rpc[n] = "exit"
    /\ done' = [done EXCEPT ![n] = TRUE]
    /\ rpc' = [rpc EXCEPT ![n] = "fin"]
    /\ UNCHANGED <<builderVars, poolVars, meta, status, doneDepCnt, err, attempts, started, begin, muR, muW,
                   wg, mpc, dpc, lerr, calls, ok, params, invoked, failures, timedOut, results>>

\* processWithRetry's deferred function: node.success(params), or the compare-and-swap
\* of node.fail(params, err)
RetryFinish(n) ==
    /\ rpc[n] = "fin"
    /\ IF lerr[n] = NoErr
         THEN /\ status' = success(n)
              /\ rpc' = [rpc EXCEPT ![n] = IF callsOnSuccess(n) THEN "hook" ELSE "ret"]
         ELSE /\ status' = fail(n)
              /\ rpc' = [rpc EXCEPT ![n] = IF failWins(n) THEN "seterr" ELSE "ret"]
    /\ exiting' = IF rpc'[n] = "ret" /\ ~noTimeout(n) THEN thunkReturns ELSE exiting
    /\ UNCHANGED <<builderVars, maxWorkers, workers, queue, len, meta, doneDepCnt, err,
                   attempts, done, started, begin, muR, muW, wg, mpc, dpc, lerr, calls,
                   ok, params, invoked, failures, timedOut, results>>

\* fail(): node.err = err, after the compare-and-swap succeeded
RetrySetErr(n) ==
    /\ rpc[n] = "seterr"
    /\ err' = [err EXCEPT ![n] = lerr[n]]
    /\ rpc' = [rpc EXCEPT ![n] = IF meta[n].onFailure THEN "hook" ELSE "ret"]
    /\ exiting' = IF rpc'[n] = "ret" /\ ~noTimeout(n) THEN thunkReturns ELSE exiting
    /\ UNCHANGED <<builderVars, maxWorkers, workers, queue, len, meta, status, doneDepCnt, attempts, done, started, begin, muR, muW,
                   wg, mpc, dpc, lerr, calls, ok, params, invoked, failures, timedOut, results>>

\* ------------------------------------------------------------------- hooks
\* node.onSuccess / node.onFailure called by the driver, from run() ("hookRun") or from
\* the deadline handler, which holds the write lock ("hookFlip"): the hook calls
\* GetCost or DoIfRunning (RLock, which is granted while no writer holds or waits for
\* the lock; the status is not Running, so no fn runs; RUnlock) and returns
HookDriver(n) ==
    /\ dpc[n] \in {"hookRun", "hookFlip"}
    /\ CanRLock(n)
    /\ dpc' = [dpc EXCEPT ![n] = IF dpc[n] = "hookRun" THEN "notify" ELSE "unlock"]
    /\ UNCHANGED <<builderVars, poolVars, meta, status, doneDepCnt, err, attempts, done,
                   started, begin, muR, muW, wg, mpc, rpc, lerr, calls, ok, params,
                   invoked, failures, timedOut, results>>

\* node.onSuccess / node.onFailure called by the deferred function of processWithRetry
HookInner(n) ==
    /\ rpc[n] = "hook"
    /\ CanRLock(n)
    /\ rpc' = [rpc EXCEPT ![n] = "ret"]
    /\ exiting' = IF ~noTimeout(n) THEN thunkReturns ELSE exiting
    /\ UNCHANGED <<builderVars, maxWorkers, workers, queue, len, meta, status, doneDepCnt,
                   err, attempts, done, started, begin, muR, muW, wg, mpc, dpc, lerr,
                   calls, ok, params, invoked, failures, timedOut, results>>

\* ------------------------------------------------------------- Pool.work
\* the thunk begins on the worker that dequeued it
begins(pc, kind, f) == IF f[1] = kind THEN [pc EXCEPT ![f[2]] = IF kind = "run" THEN "run" ELSE "begin"] ELSE pc
\* the process ends: every goroutine, whatever it was doing, is gone
crashed(pc) == [n \in Nodes |-> "crashed"]

\* Pool.work, after f() has returned: under the pool's mutex, with a thunk queued
\* (p.len > 0) f = p.head.f, p.head = p.head.next, p.len--, and the loop calls f();
\* with none, p.workers-- and the worker returns. Calling a nil f is a nil
\* dereference that nothing recovers: the process ends.
Work ==
    /\ exiting > 0
    /\ IF len > 0
         THEN LET f == Head(queue) IN
                /\ queue' = Tail(queue)
                /\ len' = len - 1
                /\ workers' = workers
                /\ IF f = NilThunk
                     THEN /\ mpc' = "crashed"
                          /\ dpc' = crashed(dpc)
                          /\ rpc' = crashed(rpc)
                          /\ exiting' = 0
                     ELSE /\ mpc' = mpc
                          /\ dpc' = begins(dpc, "run", f)
                          /\ rpc' = begins(rpc, "process", f)
                          /\ exiting' = exiting - 1
         ELSE /\ workers' = workers - 1
              /\ exiting' = exiting - 1
              /\ UNCHANGED <<queue, len, mpc, dpc, rpc>>
    /\ UNCHANGED <<builderVars, maxWorkers, meta, status, doneDepCnt, err, attempts, done,
                   started, begin, muR, muW, wg, lerr, calls, ok, params, invoked,
                   failures, timedOut, results>>

\* ------------------------------------------------------------------ Next
Next ==
    \/ StartRoots
    \/ Return
    \/ \E n \in Nodes :
         \/ RunExpired(n)
         \/ RunNoProcessor(n)
         \/ RunWithoutTimeout(n)
         \/ RunWithTimeout(n)
         \/ WaitStarted(n)
         \/ SelectDone(n)
         \/ SelectTimeout(n)
         \/ DeadlineLock(n)
         \/ DeadlineFail(n)
         \/ DeadlineUnlock(n)
         \/ Notify(n)
         \/ InnerBegin(n)
         \/ RetryExhausted(n)
         \/ RetryAttempt(n)
         \/ ProcInvoke(n)
         \/ UserDoIfRunning(n)
         \/ UserFn(n)
         \/ ProcReturn(n)
         \/ BackoffCheck(n)
         \/ Backoff(n)
         \/ RetryExit(n)
         \/ RetryFinish(n)
         \/ RetrySetErr(n)

Init == InitOf(GraphInputs \cup NodeInputs)
InitNode == InitOf(NodeInputs)
InitTotal == InitOf(TotalInputs \cup NodeInputs)
\* RunWithPool(NewPool(w), params) for w in 1..MaxWorkers
InitPool == InitRun(GraphInputs \cup NodeInputs) /\ NewPool(1..MaxWorkers) /\ NoBuilder

\* runs of every input
Spec == Init /\ [][Next]_vars
\* runs of the chain whose first node has any settings
SpecNode == InitNode /\ [][Next]_vars
\* runs of the graphs with a total timeout, and of the chain
SpecTotal == InitTotal /\ [][Next]_vars
\* runs of every input in which the program does not halt while a goroutine can take
\* a step
SpecFair == Spec /\ WF_vars(Next)
\* runs of the chain whose first node has hooks
InitHook == InitOf(HookInputs)
NextHook == Next \/ \E n \in Nodes : HookDriver(n) \/ HookInner(n)
SpecHook == InitHook /\ [][NextHook]_vars
\* runs with a pool
NextPool == Next \/ Work
SpecPool == InitPool /\ [][NextPool]_vars

\* ------------------------------------------------------------ the builder
\* Metadata indices are counted from 1; 0 stands for the code's -1 in dagBuilder.next
\* and for "not in dagBuilder.index". A node's name is its identity. Nil is a nil
\* *Node.
Nil == 0

\* The caller's nodes: every ordered pair of nodes, a node with itself included, is a
\* strong dependency, a weak dependency, or none.
UserGraphs ==
    {[u \in Nodes |->
        [Dependencies |-> Ascending({v \in Nodes : k[<<u, v>>] = "strong"}),
         WeakDependencies |-> Ascending({v \in Nodes : k[<<u, v>>] = "weak"})]] :
        k \in [Nodes \X Nodes -> {"none", "strong", "weak"}]}
\* The arguments of NewDAG: one to MaxArgs nodes, nil allowed
Args == UNION {[1..l -> Nodes \cup {Nil}] : l \in 1..MaxArgs}

\* newNodeMetadata, as far as the builder uses it
newNodeMetadata(node) ==
    [name |-> node, children |-> <<>>, weakChildren |-> <<>>, depCnt |-> 0]

\* newDagBuilder
newDagBuilder == [metaNodes |-> <<>>, index |-> [u \in Nodes |-> 0]]

RECURSIVE add(_, _), addDeps(_, _, _, _)
\* dagBuilder.add: one of its loops, over node.Dependencies (weak = FALSE) or over
\* node.WeakDependencies (weak = TRUE), for the node interned at idx
addDeps(b, idx, deps, weak) ==
    IF deps = <<>> THEN b
    ELSE IF Head(deps) = Nil THEN addDeps(b, idx, Tail(deps), weak)
    ELSE LET r == add(b, Head(deps))
             m == r.b.metaNodes
             m1 == IF weak
                     THEN [m EXCEPT ![r.idx].weakChildren = Append(@, idx)]
                     ELSE [m EXCEPT ![r.idx].children = Append(@, idx)]
             m2 == [m1 EXCEPT ![idx].depCnt = @ + 1]
         IN addDeps([r.b EXCEPT !.metaNodes = m2], idx, Tail(deps), weak)
\* dagBuilder.add: intern node and, depth first, its dependencies; returns the builder
\* and the index of node
add(b, node) ==
    IF b.index[node] # 0 THEN [b |-> b, idx |-> b.index[node]]
    ELSE LET idx == Len(b.metaNodes) + 1
             b1 == [metaNodes |-> Append(b.metaNodes, newNodeMetadata(node)),
                    index |-> [b.index EXCEPT ![node] = idx]]
             b2 == addDeps(b1, idx, userNodes[node].Dependencies, FALSE)
             b3 == addDeps(b2, idx, userNodes[node].WeakDependencies, TRUE)
         IN [b |-> b3, idx |-> idx]

\* build: for _, node := range b.nodes { b.add(node) }, nil skipped
RECURSIVE addAll(_, _)
addAll(b, ns) ==
    IF ns = <<>> THEN b
    ELSE IF Head(ns) = Nil THEN addAll(b, Tail(ns))
    ELSE addAll(add(b, Head(ns)).b, Tail(ns))

\* faulty variant: the collected names are not reversed
NotReversed(q) == q
\* slices.Reverse
RECURSIVE Reverse(_)
Reverse(q) == IF q = <<>> THEN <<>> ELSE Append(Reverse(Tail(q)), Head(q))

\* detectCycle: b.next[idx] != -1, idx is on the search path
onPath(st, idx) == st.next[idx] # 0
\* faulty variant: the search does not follow the weak children
noWeakChildren(m, idx) == <<>>
\* detectCycle: the weak children its second loop ranges over
weakChildrenOf(m, idx) == m[idx].weakChildren

\* detectCycle: for cur := b.next[idx]; cur != idx; cur = b.next[cur], the names collected
RECURSIVE walk(_, _, _, _)
walk(m, st, idx, cur) ==
    IF cur = idx THEN <<>> ELSE <<m[cur].name>> \o walk(m, st, idx, st.next[cur])

RECURSIVE detectCycle(_, _, _), detectChildren(_, _, _, _)
\* detectCycle: one of its loops, over the children or the weak children cs of idx
detectChildren(m, st, idx, cs) ==
    IF cs = <<>> THEN [st |-> st, err |-> <<>>]
    ELSE LET r == detectCycle(m, [st EXCEPT !.next[idx] = Head(cs)], Head(cs))
         IN IF r.err # <<>> THEN r ELSE detectChildren(m, r.st, idx, Tail(cs))
\* dagBuilder.detectCycle over the metadata m with st = [visited, next]: the new st,
\* and the cycle path of the error, <<>> for a nil error
detectCycle(m, st, idx) ==
    IF onPath(st, idx)
      THEN [st |-> st,
            err |-> Reverse(<<m[idx].name>> \o walk(m, st, idx, st.next[idx])
                            \o <<m[idx].name>>)]
    ELSE IF st.visited[idx] THEN [st |-> st, err |-> <<>>]
    ELSE LET r1 == detectChildren(m, [st EXCEPT !.visited[idx] = TRUE], idx,
                                  m[idx].children)
         IN IF r1.err # <<>> THEN r1
            ELSE LET r2 == detectChildren(m, r1.st, idx, weakChildrenOf(m, idx))
                 IN IF r2.err # <<>> THEN r2
                    ELSE [st |-> [r2.st EXCEPT !.next[idx] = 0], err |-> <<>>]

\* build: for idx := range b.metaNodes { b.detectCycle(idx) }, the first error
RECURSIVE detectAll(_, _, _)
detectAll(m, st, idx) ==
    IF idx > Len(m) THEN <<>>
    ELSE LET r == detectCycle(m, st, idx)
         IN IF r.err # <<>> THEN r.err ELSE detectAll(m, r.st, idx + 1)

\* dagBuilder.build: (nil, error) with the cycle path, or the DAG
build ==
    LET m == addAll(newDagBuilder, nodes).metaNodes
        cycle == detectAll(m, [visited |-> [i \in 1..Len(m) |-> FALSE],
                               next |-> [i \in 1..Len(m) |-> 0]], 1)
    IN IF cycle # <<>>
         THEN [called |-> TRUE, dag |-> FALSE, err |-> cycle, metaNodes |-> <<>>,
               rootNodes |-> <<>>]
         ELSE [called |-> TRUE, dag |-> TRUE, err |-> <<>>, metaNodes |-> m,
               rootNodes |-> Ascending({i \in 1..Len(m) : m[i].depCnt = 0})]

\* NewDAG(nodes...)
NewDAG ==
    /\ ~built.called
    /\ built' = build
    /\ UNCHANGED <<runVars, poolVars, userNodes, nodes>>

\* NewDAG for every graph of the caller's nodes and every argument list
InitBuild ==
    /\ InitRun({Meta(SimpleSettings(0), Chain)})
    /\ NewPool({0})
    /\ userNodes \in UserGraphs
    /\ nodes \in Args
    /\ built = NotBuilt

\* the builder alone
SpecBuild == InitBuild /\ [][NewDAG]_vars

\* ================================================================ claims
Terminal == {Succeeded, Failed}
returned == mpc = "returned"

\* C1: when Run returns, the status reported for every node is Waiting, Succeeded or
\* Failed, never Running.
C1_ResultNeverRunning ==
    returned => \A n \in Nodes : results[n].Status \in {Waiting, Succeeded, Failed}

\* C2: a node has left Waiting, or its processor has been invoked, only if every strong
\* parent has status Succeeded; a node with a Failed strong parent is Waiting with no
\* attempts, in every state and in the results Run returns.
C2_StrongParentsGate ==
    \A n \in Nodes : \A p \in meta[n].deps :
        /\ (status[n] # Waiting \/ invoked[n] > 0 \/ attempts[n] > 0)
              => status[p] = Succeeded
        /\ status[p] = Failed
              => status[n] = Waiting /\ attempts[n] = 0 /\ invoked[n] = 0
        /\ (returned /\ results[p].Status = Failed)
              => results[n].Status = Waiting /\ results[n].Attempts = 0

\* C2 witness: Run has returned; a node with a strong parent has run and failed, and
\* its own strong child is reported Waiting with no attempts.
C2_Witness ==
    /\ returned
    /\ \E n \in Nodes : \E p \in meta[n].deps :
          /\ meta[p].deps # {}
          /\ results[p].Status = Failed /\ results[p].Attempts > 0
          /\ results[n].Status = Waiting /\ results[n].Attempts = 0

\* C3: when Run returns, a node all of whose strong parents ended Succeeded and all of
\* whose weak parents ended Succeeded or Failed has been started.
C3_ReadyNodeStarted ==
    returned =>
        \A n \in Nodes :
            (/\ \A p \in meta[n].deps : results[p].Status = Succeeded
             /\ \A p \in meta[n].weakDeps : results[p].Status \in Terminal)
                => results[n].Status # Waiting

\* the nodes from which n is reached along strong dependency edges alone
RECURSIVE StrongAncestors(_)
StrongAncestors(n) ==
    meta[n].deps \cup UNION {StrongAncestors(p) : p \in meta[n].deps}

\* C4: when Run returns, a node is Waiting only if some Failed node reaches it along
\* strong dependency edges alone.
C4_WaitingOnlyBelowFailure ==
    returned =>
        \A n \in Nodes :
            results[n].Status = Waiting
                => \E f \in StrongAncestors(n) : results[f].Status = Failed

\* C5: a node has left Waiting only if every weak parent has completed (Succeeded or
\* Failed).
C5_WeakParentsCompleted ==
    \A n \in Nodes : \A p \in meta[n].weakDeps :
        status[n] # Waiting => status[p] \in Terminal

\* C6: the body fn of a DoIfRunning call and the deadline handler's section under the
\* write lock exclude one another: while fn executes the flip has not happened and
\* cannot happen, and the handler holds the lock only while no fn executes.
C6_Interlock ==
    \A n \in Nodes :
        /\ rpc[n] = "fn" =>
              /\ muR[n] > 0
              /\ muW[n] # "held"
              /\ dpc[n] \notin {"flip", "unlock"}
              /\ status[n] = Running
              /\ ~timedOut[n]
        /\ dpc[n] \in {"flip", "unlock"} => muW[n] = "held" /\ muR[n] = 0

\* C6 witness: the deadline has passed while fn executes; the handler waits for the lock.
C6_Witness == \E n \in Nodes : rpc[n] = "fn" /\ dpc[n] = "lock" /\ muW[n] = "pending"

\* C7: a DoIfRunning call enters fn only if the status is Running at its check, and
\* then completes fn and returns true; it returns false without running fn only if
\* the status is not Running; after the deadline flip no call runs fn or returns true.
C7_DoIfRunningResult ==
    [][\A n \in Nodes :
          /\ (rpc[n] = "proc" /\ rpc'[n] = "fn") => status[n] = Running
          /\ (rpc[n] = "fn" /\ rpc'[n] = "proc")
                => ok'[n] = "true" /\ params'[n] = params[n] + 1 /\ status[n] = Running
          /\ (rpc[n] = "proc" /\ calls'[n] = calls[n] + 1)
                => ok'[n] = "false" /\ params'[n] = params[n] /\ status[n] # Running
          /\ timedOut[n] =>
                /\ params'[n] = params[n] /\ rpc'[n] # "fn"
                /\ calls'[n] = calls[n] + 1 => ok'[n] = "false"]_vars

\* C7 witness: a call made before the deadline ran fn, and a call made after the
\* deadline flip has returned false.
C7_Witness == \E n \in Nodes : timedOut[n] /\ ok[n] = "false" /\ params[n] > 0

\* C8: once the deadline handler has flipped a node, its status is Failed and its error
\* TimeoutErr, in every later state and in the results; a status that is Succeeded or
\* Failed never changes.
C8_TimeoutResultStable ==
    /\ [](\A n \in Nodes :
            timedOut[n] =>
               /\ status[n] = Failed /\ err[n] = TimeoutErr
               /\ returned => results[n].Status = Failed /\ results[n].Err = TimeoutErr)
    /\ [][\A n \in Nodes : status[n] \in Terminal => status'[n] = status[n]]_vars

\* C8 witness: Run has returned and, after the flip, the processor has panicked and
\* processWithRetry has finished.
C8_Witness ==
    returned /\ \E n \in Nodes : timedOut[n] /\ rpc[n] = "ret" /\ lerr[n].kind = "panic"

\* C9 as claimed: after the deadline flip the processor is not invoked, attempts does
\* not increase and no backoff sleep begins.
C9_NoRetryAfterTimeout ==
    [][\A n \in Nodes :
          timedOut[n] =>
             /\ invoked'[n] = invoked[n]
             /\ attempts'[n] = attempts[n]
             /\ ~(rpc[n] = "sleep" /\ rpc'[n] = "loop")]_vars

\* C9 as amended: after the deadline flip attempts does not increase and no attempt
\* begins; the processor is invoked only for an attempt counted before the flip, and
\* no status check before a backoff passes.
C9_NoNewAttemptAfterTimeout ==
    [][\A n \in Nodes :
          timedOut[n] =>
             /\ attempts'[n] = attempts[n]
             /\ invoked'[n] <= attempts[n]
             /\ rpc[n] = "loop" => rpc'[n] # "call"
             /\ rpc[n] = "chk" => rpc'[n] # "sleep"]_vars

\* C9 witness: the node timed out, its last attempt failed, attempts remained, and
\* processWithRetry has finished without using them.
C9_Witness ==
    \E n \in Nodes :
        /\ timedOut[n] /\ rpc[n] = "ret"
        /\ lerr[n] # NoErr
        /\ attempts[n] < (IF meta[n].maxAttempts > 1 THEN meta[n].maxAttempts ELSE 1)

\* C10: a node with no timeout whose processing has finished is Succeeded with attempts
\* the index of the first successful invocation, or Failed with the error of the last
\* invocation and attempts = max(1, max_attempts); Run reports the same.
C10_RetryOutcome ==
    \A n \in Nodes :
        (meta[n].processor /\ meta[n].localTimeout = 0 /\ meta[n].totalTimeout = 0
            /\ rpc[n] = "ret") =>
        LET max == IF meta[n].maxAttempts > 1 THEN meta[n].maxAttempts ELSE 1 IN
          /\ \/ /\ status[n] = Succeeded /\ err[n] = NoErr
                /\ attempts[n] \in 1..max
                /\ invoked[n] = attempts[n] /\ failures[n] = attempts[n] - 1
             \/ /\ status[n] = Failed
                /\ attempts[n] = max /\ invoked[n] = max /\ failures[n] = max
                /\ err[n] = lerr[n] /\ err[n].at = max /\ err[n].kind \in {"proc", "panic"}
          /\ returned => /\ results[n].Status = status[n]
                          /\ results[n].Err = err[n]
                          /\ results[n].Attempts = attempts[n]

\* C10 witness: Run has returned; a node with no timeout failed once and succeeded at
\* its second invocation.
C10_Witness ==
    returned /\ \E n \in Nodes :
        /\ meta[n].localTimeout = 0 /\ meta[n].totalTimeout = 0
        /\ results[n].Status = Succeeded /\ results[n].Attempts = 2 /\ failures[n] = 1

\* C11 as claimed: in every state attempts <= max(1, max_attempts), and attempts > 0
\* exactly if the processor has been invoked.
C11_AttemptsIffInvoked ==
    \A n \in Nodes :
        /\ attempts[n] <= (IF meta[n].maxAttempts > 1 THEN meta[n].maxAttempts ELSE 1)
        /\ attempts[n] > 0 <=> invoked[n] > 0

\* C11 as amended: in every state attempts <= max(1, max_attempts); the processor has
\* been invoked attempts times, or attempts - 1 times exactly while processWithRetry is
\* between the increment and the call it makes next; Run reports no more attempts
\* than that bound.
C11_AttemptsCountInvocations ==
    \A n \in Nodes :
        LET max == IF meta[n].maxAttempts > 1 THEN meta[n].maxAttempts ELSE 1 IN
          /\ attempts[n] <= max
          /\ invoked[n] = (IF rpc[n] = "call" THEN attempts[n] - 1 ELSE attempts[n])
          /\ invoked[n] > 0 => attempts[n] > 0
          /\ returned => results[n].Attempts <= max

\* C11 witness: a node with max_attempts 0 has made its one attempt, which failed, and
\* processWithRetry has finished.
C11_Witness ==
    \E n \in Nodes :
        /\ meta[n].maxAttempts = 0 /\ attempts[n] = 1 /\ invoked[n] = 1
        /\ failures[n] = 1 /\ rpc[n] = "ret"

\* C12: a node whose total timeout has expired when run() is entered becomes Failed
\* with TimeoutErr, its processor is never invoked and attempts stays 0, also in the
\* results; its driver calls onDepDone on every weak child and on no strong child,
\* and the strong children stay Waiting.
C12_ExpiredAtEntry ==
    /\ [][\A n \in Nodes :
            (dpc[n] = "run" /\ dpc'[n] = "notify" /\ status'[n] = Failed)
                => err'[n] = TimeoutErr /\ attempts'[n] = 0 /\ invoked'[n] = 0]_vars
    /\ [](\A n \in Nodes :
            (status[n] = Failed /\ rpc[n] = "idle") =>
               /\ err[n] = TimeoutErr /\ attempts[n] = 0 /\ invoked[n] = 0
               /\ \A c \in children(n) : status[c] = Waiting
               /\ returned => /\ results[n].Status = Failed
                               /\ results[n].Err = TimeoutErr
                               /\ results[n].Attempts = 0)
    /\ [][\A n \in Nodes :
            (status[n] = Failed /\ rpc[n] = "idle" /\ dpc[n] = "notify" /\ dpc'[n] = "done")
                => \A c \in Nodes :
                      doneDepCnt'[c] = doneDepCnt[c] + (IF n \in meta[c].weakDeps THEN 1 ELSE 0)]_vars

\* C12 witness: Run has returned; a node with a processor expired at entry, its weak
\* child has run and its strong child is Waiting.
C12_Witness ==
    returned /\ \E n \in Nodes :
        /\ meta[n].processor /\ results[n].Status = Failed /\ rpc[n] = "idle"
        /\ \E c \in Nodes : n \in meta[c].weakDeps /\ results[c].Status = Succeeded
        /\ \E c \in Nodes : n \in meta[c].deps /\ results[c].Status = Waiting

\* the dependencies of a caller's node, strong and weak
DepsOf(u) ==
    {userNodes[u].Dependencies[i] : i \in DOMAIN userNodes[u].Dependencies}
        \cup {userNodes[u].WeakDependencies[i] : i \in DOMAIN userNodes[u].WeakDependencies}
\* the nodes reached from S along dependency edges, S included
RECURSIVE ReachedFrom(_)
ReachedFrom(S) ==
    LET T == S \cup UNION {DepsOf(u) : u \in S} IN IF T = S THEN S ELSE ReachedFrom(T)
\* the nodes NewDAG is given
Given == {nodes[i] : i \in DOMAIN nodes} \ {Nil}
\* the graph NewDAG is given contains a cycle
HasCycle == \E u \in ReachedFrom(Given) : u \in ReachedFrom(DepsOf(u))

\* C13: NewDAG returns an error and no DAG exactly if the strong and weak dependency
\* edges of the nodes reached from its arguments contain a cycle, a self-dependency
\* included; otherwise it returns a DAG (of exactly the nodes reached).
C13_CycleIffError ==
    built.called =>
        /\ built.err # <<>> <=> HasCycle
        /\ built.dag <=> ~HasCycle
        /\ built.dag =>
              {built.metaNodes[i].name : i \in DOMAIN built.metaNodes} = ReachedFrom(Given)

\* C13 witness: the only cycle of the graph passes through a weak edge, and NewDAG
\* has reported it.
C13_Witness ==
    /\ built.called /\ built.err # <<>>
    /\ \A u \in Nodes : u \notin DepsOf(u)
    /\ \E u \in Nodes : userNodes[u].WeakDependencies # <<>>
    /\ \E u \in Nodes : \E v \in Nodes \ {u} :
          /\ userNodes[u].Dependencies = <<v>> /\ userNodes[u].WeakDependencies = <<>>
          /\ userNodes[v].Dependencies = <<>> /\ userNodes[v].WeakDependencies = <<u>>
          /\ \A w \in Nodes \ {u, v} : DepsOf(w) = {}

\* the graph of TestCycle: node1 depends on node3, node2 on node1, node3 on node2
TestCycleNodes ==
    [u \in Nodes |->
        [Dependencies |-> IF u = 1 THEN <<3>> ELSE IF u = 2 THEN <<1>>
                          ELSE IF u = 3 THEN <<2>> ELSE <<>>,
         WeakDependencies |-> <<>>]]

\* C14: the path of a cycle error begins and ends with the same node, each node of it
\* lists the next as a strong or weak dependency, and no other node is repeated; for
\* TestCycle's graph built from node3 it is node3 -> node2 -> node1 -> node3.
C14_CyclePathIsCycle ==
    (built.called /\ built.err # <<>>) =>
        LET c == built.err IN
          /\ Len(c) >= 2
          /\ c[1] = c[Len(c)]
          /\ \A i \in 1..(Len(c) - 1) : c[i + 1] \in DepsOf(c[i])
          /\ \A i, j \in 1..(Len(c) - 1) : i # j => c[i] # c[j]
          /\ (userNodes = TestCycleNodes /\ nodes = <<3>>) => c = <<3, 2, 1, 3>>

\* C14 witness: NewDAG(node3) has reported the cycle of TestCycle's graph.
C14_Witness ==
    built.called /\ userNodes = TestCycleNodes /\ nodes = <<3>> /\ Len(built.err) = 4

\* the thunks executing on workers of the pool: drivers, and the inner tasks of the
\* nodes with a timeout
executing ==
    Cardinality({n \in Nodes : dpc[n] \notin {"idle", "queued", "done", "crashed"}})
    + Cardinality({n \in Nodes :
                      ~noTimeout(n) /\ rpc[n] \notin {"idle", "queued", "ret", "crashed"}})

\* C15: with a pool, the number of live workers never exceeds max_workers, and the
\* thunks executing at the same time are at most as many as the live workers, whether
\* they were submitted by the caller of Run or from inside a running thunk.
C15_WorkersBounded ==
    hasPool =>
        /\ workers <= maxWorkers
        /\ executing <= workers
        /\ mpc # "crashed" => executing + exiting = workers

\* C15 witness: every worker of a pool of two executes a thunk, and the inner task one
\* of them has submitted is queued.
C15_Witness ==
    /\ maxWorkers = 2 /\ workers = 2 /\ executing = 2 /\ len > 0
    /\ \E n \in Nodes : rpc[n] = "queued" /\ dpc[n] = "waitStarted"

\* C16: the thunk a worker dequeues is a submitted one, the one queued longest; no
\* thunk is executed that was not submitted, and none is queued once the pool is idle.
C16_QueuedThunksRunInOrder ==
    /\ [][len' = len - 1 =>
            /\ Head(queue) # NilThunk
            /\ Head(queue) = queue[Len(queue) - len + 1]]_vars
    /\ []((hasPool /\ workers = 0) =>
             /\ len = 0
             /\ \A n \in Nodes : dpc[n] # "queued" /\ rpc[n] # "queued")

\* C17: a run with a pool of a graph whose nodes have no timeout never ends in a
\* crash, and when Run has returned with no processor having failed, every node is
\* Succeeded.
C17_PoolRunCompletes ==
    (hasPool /\ \A n \in Nodes : noTimeout(n)) =>
        /\ mpc # "crashed"
        /\ (returned /\ \A n \in Nodes : failures[n] = 0)
              => \A n \in Nodes : results[n].Status = Succeeded

\* with a pool of one worker, the driver of n has submitted the inner task and waits
\* for started
waitsForInner(n) == maxWorkers = 1 /\ dpc[n] = "waitStarted"

\* C19 as claimed: with a pool of one worker, once the driver of a node that has a
\* processor and a timeout runs, Run does not return.
C19_TimedNodeDeadlocks ==
    (maxWorkers = 1 /\ returned) =>
        \A n \in Nodes :
            (meta[n].processor /\ ~noTimeout(n)) => dpc[n] \in {"idle", "queued"}

\* C19 as amended: with a pool of one worker, once the driver of a node has entered
\* processWithTimeout, it occupies the only worker, the inner task it submitted stays
\* queued, started is never closed, and this lasts: Run never returns.
C19_TimeoutPathDeadlocks ==
    /\ [](\A n \in Nodes :
            waitsForInner(n) =>
               /\ workers = 1 /\ exiting = 0
               /\ rpc[n] = "queued" /\ ~started[n]
               /\ processThunk(n) \in {queue[i] : i \in DOMAIN queue}
               /\ mpc \in {"start", "wait"})
    /\ [][\A n \in Nodes : waitsForInner(n) => waitsForInner(n)']_vars

\* C19 witness: with a pool of one worker, the driver waits for the inner task, which
\* is queued, and the caller of Run waits for the wait group.
C19_Witness ==
    \E n \in Nodes : waitsForInner(n) /\ rpc[n] = "queued" /\ mpc = "wait" /\ wg > 0

\* C18: with no pool, Run eventually returns; when it returns the wait group is zero
\* and the driver of every node that was started has finished notifying its children.
C18_RunReturns ==
    /\ <>returned
    /\ [](returned =>
            /\ wg = 0
            /\ \A n \in Nodes : dpc[n] \in {"idle", "done"}
            /\ \A n \in Nodes : status[n] # Waiting => dpc[n] = "done")

\* C18 witness: Run has returned from a graph in which a node timed out and another
\* node ran after it.
C18_Witness ==
    returned /\ \E n \in Nodes : \E c \in Nodes :
        timedOut[n] /\ n \in meta[c].weakDeps /\ dpc[c] = "done"

\* C20: done_dep_count only increases and never exceeds dep_count; a node goes from
\* Waiting to Running exactly in the step of the arrival that makes done_dep_count
\* equal to dep_count (a root: in the step of RunWithPool that starts the roots), it
\* never returns to Waiting, and the wait group is incremented once for each such
\* transition (and decremented once for each driver that finishes).
C20_StartedOnce ==
    [][/\ \A n \in Nodes :
            /\ doneDepCnt[n] <= doneDepCnt'[n]
            /\ doneDepCnt'[n] <= depCnt(n)
            /\ status[n] # Waiting => status'[n] # Waiting
            /\ (status[n] = Waiting /\ status'[n] # Waiting) =>
                  /\ status'[n] = Running
                  /\ doneDepCnt'[n] = depCnt(n)
                  /\ IF depCnt(n) = 0 THEN mpc = "start" /\ mpc' = "wait"
                     ELSE doneDepCnt[n] = depCnt(n) - 1
            /\ (doneDepCnt[n] < depCnt(n) /\ doneDepCnt'[n] = depCnt(n)) =>
                  status[n] = Waiting /\ status'[n] = Running
       /\ wg' = wg + Cardinality({n \in Nodes : status[n] = Waiting /\ status'[n] = Running})
                   - Cardinality({n \in Nodes : dpc[n] # "done" /\ dpc'[n] = "done"})]_vars

\* C20 witness: a node with a strong and a weak parent has run, after both arrivals.
C20_Witness ==
    \E n \in Nodes :
        /\ meta[n].deps # {} /\ meta[n].weakDeps # {}
        /\ doneDepCnt[n] = 2 /\ dpc[n] = "done"

\* C21: a node failed at run entry because its total timeout had expired reports a
\* cost of zero in its result record.
C21_ExpiredCostZero ==
    returned =>
        \A n \in Nodes :
            (meta[n].totalTimeout > 0 /\ results[n].Status = Failed /\ rpc[n] = "idle")
                => results[n].Cost = ZeroCost

\* C22: a hook that calls GetCost or DoIfRunning on its node is never called by a
\* thread that holds the node's write lock, so its RLock is granted and it returns:
\* while the driver executes a hook, the read lock can be taken.
C22_HookCanUseHandle ==
    \A n \in Nodes : dpc[n] \in {"hookRun", "hookFlip"} => CanRLock(n)

====
